---- MODULE Spec2Model ----
(***************************************************************************)
(* State-machine model of teams-notify-bot.py: the scheduled batch job     *)
(* that collects unprocessed papers from RSS feeds, deduplicates them      *)
(* against a DynamoDB table, asks Bedrock to select the relevant ones,     *)
(* posts them to Teams and marks the whole batch as processed.             *)
(*                                                                         *)
(* Time is counted in days and kept relative: a table item carries the     *)
(* number of days left until its ttl attribute passes.  The program never  *)
(* reads the clock except to stamp an item, so the only waits that matter  *)
(* are those that let an item's ttl pass: Tick lets one whole ttl period   *)
(* go by.  An invocation is far shorter than that, so Tick is taken only   *)
(* while no invocation is in flight.  Locals that are dead (never read     *)
(* again) are reset, so that states differing only in them coincide.       *)
(***************************************************************************)
EXTENDS Integers, Sequences, FiniteSets, TLC

\* ---------------------------------------------------------------- bounds
MaxFeeds == 2
MaxEntries == 2
MaxCap == 3
MaxModelOut == 4
MaxInvocations == 2
MaxFailures == 1
MaxRendered == 2

\* ------------------------------------------------------ program constants
TTL_DAYS == 7
ABSTRACT_TRUNCATE_LENGTH == 1500
DEFAULT_MAX_ARTICLES == 20
MAX_SELECTED == 3

\* ------------------------------------------------------------ value sets
Runs == {"r1", "r2"}
Ids == {"a", "b"}
NoItem == -1

Max(x, y) == IF x >= y THEN x ELSE y
Min(x, y) == IF x <= y THEN x ELSE y

\* The value of MAX_ARTICLES_TO_PROCESS: a decimal integer, or text int() rejects.
CapEnvs ==
    [valid : {TRUE}, n : {-1, 0, MaxCap}] \cup {[valid |-> FALSE, n |-> 0]}

\* The seven TOPICS_* variables, each split on "," ("" is a blank piece).
Levels ==
    {"L0_Domain", "L1_Approach", "L2_Task", "L3_Modality",
     "L4_Application", "L5_Environment", "L6_Challenge"}
TopicEnvs ==
    { [l \in Levels |-> <<"">>],
      [l \in Levels |-> IF l = "L6_Challenge" THEN <<"", " ">> ELSE <<"">>],
      [l \in Levels |-> IF l = "L1_Approach" THEN <<"gnn", "">>
                        ELSE IF l = "L6_Challenge" THEN <<" few-shot">>
                        ELSE <<"">>] }

\* str.strip() on a comma-separated piece.
Strip(s) ==
    CASE s = " " -> ""
      [] s = " few-shot" -> "few-shot"
      [] OTHER -> s

\* parse_topics: [t.strip() for t in env_var.split(',') if t.strip()]
parse_topics(env_var) ==
    LET stripped == [i \in DOMAIN env_var |-> Strip(env_var[i])]
    IN  SelectSeq(stripped, LAMBDA t : t # "")

\* RSS_FEED_URLS split on ",": a piece is a feed URL (1, 2, ...) or blank (0).
FeedEnvs ==
    {[i \in 1 .. n + 1 |-> IF i = n + 1 THEN 0 ELSE i] : n \in 0 .. MaxFeeds}

\* [url.strip() for url in RSS_FEED_URLS_ENV.split(',') if url.strip()]
parse_feed_urls(env_var) == SelectSeq(env_var, LAMBDA u : u # 0)

\* int(MAX_ARTICLES_TO_PROCESS_ENV), 20 on ValueError.
ParseMaxToProcess(env) == IF env.valid THEN env.n ELSE DEFAULT_MAX_ARTICLES

\* (mutant) the quota without its floor of 1.
LimitPerFeedNoFloor(max_to_process, num_feeds) == max_to_process \div num_feeds

\* limit_per_feed = max(1, max_to_process // num_feeds)
LimitPerFeed(max_to_process, num_feeds) ==
    Max(1, max_to_process \div num_feeds)

\* ------------------------------------------------------------ feed entries
\* A feed entry is a dictionary; an attribute it lacks raises AttributeError.
EntrySet ==
    { [link |-> "a", title |-> "t", summary |-> ABSTRACT_TRUNCATE_LENGTH],
      [link |-> "b", title |-> "t", summary |-> ABSTRACT_TRUNCATE_LENGTH + 1],
      [title |-> "t", summary |-> ABSTRACT_TRUNCATE_LENGTH],
      [link |-> "a", summary |-> ABSTRACT_TRUNCATE_LENGTH],
      [link |-> "b", title |-> "t"] }

RECURSIVE SeqsUpTo(_, _)
SeqsUpTo(S, n) ==
    IF n = 0 THEN {<<>>}
    ELSE LET shorter == SeqsUpTo(S, n - 1)
         IN  shorter \cup {Append(s, x) : s \in shorter, x \in S}

FeedContents == SeqsUpTo(EntrySet, MaxEntries)

\* abstract[:ABSTRACT_TRUNCATE_LENGTH], plus the marker when it was cut.
TruncateAbstract(len) ==
    [chars |-> Min(len, ABSTRACT_TRUNCATE_LENGTH),
     marker |-> IF len > ABSTRACT_TRUNCATE_LENGTH THEN "... (truncated)" ELSE ""]

\* (mutant) the paper is given the wrong field of the entry as its url.
MakePaperWrongUrl(entry) ==
    [url |-> entry.title, title |-> entry.title,
     abstract |-> TruncateAbstract(entry.summary)]

MakePaper(entry) ==
    [url |-> entry.link, title |-> entry.title,
     abstract |-> TruncateAbstract(entry.summary)]

HasAllFields(entry) == {"link", "title", "summary"} \subseteq DOMAIN entry

Urls(papers) == {papers[i].url : i \in DOMAIN papers}
Range(s) == {s[i] : i \in DOMAIN s}

\* ------------------------------------------------------------------ state
VARIABLES
    aws_clients_ok,               \* all([dynamodb, dynamodb_table, bedrock_runtime])
    MAX_ARTICLES_TO_PROCESS_ENV,
    RSS_FEED_URLS_ENV,
    TOPICS_ENV,
    TEAMS_WEBHOOK_URL,            \* TRUE when the variable is set
    dynamodb_table,               \* article_url -> days until ttl passes, or NoItem
    local,                        \* per invocation: the handler's locals and position
    obs,                          \* per invocation: what it has done so far
    invocations,                  \* invocations started so far
    failures,                     \* per invocation: failed calls to external services
    since_analysed,               \* article_url -> days since last handed to the LLM
    write_failed                  \* article_url -> its latest put_item failed

config == <<aws_clients_ok, MAX_ARTICLES_TO_PROCESS_ENV, RSS_FEED_URLS_ENV,
            TOPICS_ENV, TEAMS_WEBHOOK_URL>>
vars == <<config, dynamodb_table, local, obs, invocations, failures,
          since_analysed, write_failed>>

\* A response body is the sequence of the pieces it is formatted from.
NoResponse == [statusCode |-> 0, body |-> <<>>]

IdleLocal ==
    [pc |-> "idle", feed_urls_list |-> <<>>, max_to_process |-> 0,
     limit_per_feed |-> 0, feed_idx |-> 0, feed_entries |-> <<>>,
     entry_idx |-> 0, fetched_from_this_feed |-> 0,
     papers_to_analyze |-> <<>>, processed_urls |-> <<>>,
     result_text |-> <<>>, selected_papers |-> <<>>, mark_idx |-> 0,
     card_body_elements |-> <<>>, response |-> NoResponse]

NoObs ==
    [overlapped |-> FALSE, fetched_feed |-> FALSE, looked_up |-> FALSE,
     lookup_failed |-> {}, source_failed |-> FALSE, taken_per_feed |-> <<>>,
     reported_new |-> <<>>, inference_calls |-> 0,
     analysis_outcome |-> "none", post_calls |-> 0, post_outcome |-> "none",
     mark_calls |-> <<>>]

InFlight(r) == local[r].pc \notin {"idle", "done", "crashed"}

Init ==
    /\ aws_clients_ok \in BOOLEAN
    /\ MAX_ARTICLES_TO_PROCESS_ENV \in CapEnvs
    /\ RSS_FEED_URLS_ENV \in FeedEnvs
    /\ TOPICS_ENV \in TopicEnvs
    /\ TEAMS_WEBHOOK_URL \in BOOLEAN
    /\ dynamodb_table = [u \in Ids |-> NoItem]
    /\ local = [r \in Runs |-> IdleLocal]
    /\ obs = [r \in Runs |-> NoObs]
    /\ invocations = 0
    /\ failures = [r \in Runs |-> 0]
    /\ since_analysed = [u \in Ids |-> TTL_DAYS]
    /\ write_failed = [u \in Ids |-> FALSE]

Return(l, code, text) ==
    [l EXCEPT !.pc = "done", !.response = [statusCode |-> code, body |-> text]]

\* ------------------------------------------------- 1. load configuration
topic_hierarchy == [l \in Levels |-> parse_topics(TOPICS_ENV[l])]

\* (mutant) the handler without its check that some topic level is set.
LoadedLocalNoTopicCheck ==
    LET max_to_process == ParseMaxToProcess(MAX_ARTICLES_TO_PROCESS_ENV)
        feed_urls_list == parse_feed_urls(RSS_FEED_URLS_ENV)
    IN  IF ~aws_clients_ok
        THEN Return(IdleLocal, 500, <<"AWS Client initialization failed.">>)
        ELSE IF feed_urls_list = <<>>
        THEN Return([IdleLocal EXCEPT !.max_to_process = max_to_process],
                    200, <<"RSS_FEED_URLS not set">>)
        ELSE [IdleLocal EXCEPT
                  !.pc = "collect", !.feed_idx = 1,
                  !.max_to_process = max_to_process,
                  !.feed_urls_list = feed_urls_list,
                  !.limit_per_feed =
                      LimitPerFeed(max_to_process, Len(feed_urls_list))]

LoadedLocal ==
    LET max_to_process == ParseMaxToProcess(MAX_ARTICLES_TO_PROCESS_ENV)
        feed_urls_list == parse_feed_urls(RSS_FEED_URLS_ENV)
    IN  IF ~aws_clients_ok
        THEN Return(IdleLocal, 500, <<"AWS Client initialization failed.">>)
        ELSE IF feed_urls_list = <<>>
        THEN Return([IdleLocal EXCEPT !.max_to_process = max_to_process],
                    200, <<"RSS_FEED_URLS not set">>)
        ELSE LET loaded ==
                     [IdleLocal EXCEPT
                          !.max_to_process = max_to_process,
                          !.feed_urls_list = feed_urls_list,
                          !.limit_per_feed =
                              LimitPerFeed(max_to_process, Len(feed_urls_list))]
             IN  IF \A l \in Levels : topic_hierarchy[l] = <<>>
                 THEN Return(loaded, 200, <<"All topic environments are empty.">>)
                 ELSE [loaded EXCEPT !.pc = "collect", !.feed_idx = 1]

LoadConfig(r) ==
    /\ local[r].pc = "idle"
    /\ invocations < MaxInvocations
    /\ invocations' = invocations + 1
    /\ local' = [local EXCEPT ![r] = LoadedLocal]
    /\ obs' = [q \in Runs |->
                 IF q = r
                 THEN [NoObs EXCEPT !.overlapped = \E o \in Runs \ {r} : InFlight(o)]
                 ELSE IF InFlight(q) THEN [obs[q] EXCEPT !.overlapped = TRUE]
                 ELSE obs[q]]
    /\ UNCHANGED <<config, dynamodb_table, failures, since_analysed, write_failed>>

\* --------------------------------------------- 2. collect unprocessed papers
\* An external call may fail only while the failure budget lasts.
MayFail(r) == failures[r] < MaxFailures
Count(r, failed) ==
    failures' = [failures EXCEPT ![r] = IF failed THEN @ + 1 ELSE @]

\* (mutant) the lookup tests the response for the wrong key: never "processed".
is_article_processed_never(table, url, get_item_ok) == FALSE

\* (mutant) a failed lookup counts as "processed" (fail-closed).
is_article_processed_failclosed(table, url, get_item_ok) ==
    IF get_item_ok THEN table[url] # NoItem ELSE TRUE

\* is_article_processed: 'Item' in response, False when get_item raises.
is_article_processed(table, url, get_item_ok) ==
    IF get_item_ok THEN table[url] # NoItem ELSE FALSE

NextFeed(l) ==
    [l EXCEPT !.pc = "collect", !.feed_idx = @ + 1, !.feed_entries = <<>>,
              !.entry_idx = 0, !.fetched_from_this_feed = 0]

\* An exception leaves the handler: the invocation ends with no response.
Crash(l) == [IdleLocal EXCEPT !.pc = "crashed"]

\* feedparser.parse(feed_url): raises, reports a malformed feed, or yields entries.
FetchFeed(r) ==
    LET l == local[r] IN
    /\ l.pc = "collect"
    /\ l.feed_idx <= Len(l.feed_urls_list)
    /\ \E parsed \in {"raise", "bozo", "ok"}, entries \in FeedContents :
         LET skipped == parsed # "ok" \/ entries = <<>> IN
         /\ parsed # "ok" => entries = <<>> /\ MayFail(r)
         /\ Count(r, parsed # "ok")
         /\ local' = [local EXCEPT ![r] =
                IF skipped
                THEN NextFeed(l)
                ELSE [l EXCEPT !.pc = "entries", !.feed_entries = entries,
                               !.entry_idx = 1, !.fetched_from_this_feed = 0]]
         /\ obs' = [obs EXCEPT ![r].fetched_feed = TRUE,
                               ![r].source_failed = @ \/ skipped,
                               ![r].taken_per_feed = Append(@, 0),
                               ![r].reported_new = <<>>]
    /\ UNCHANGED <<config, dynamodb_table, invocations, since_analysed, write_failed>>

\* (mutant) an entry already processed uses up the quota of its source too.
CollectEntryCountsSkipped(r) ==
    LET l == local[r] IN
    /\ l.pc = "entries"
    /\ IF \/ l.entry_idx > Len(l.feed_entries)
          \/ l.fetched_from_this_feed >= l.limit_per_feed
       THEN /\ local' = [local EXCEPT ![r] = NextFeed(l)]
            /\ obs' = [obs EXCEPT ![r].reported_new = <<>>]
            /\ UNCHANGED failures
       ELSE LET entry == l.feed_entries[l.entry_idx] IN
            IF "link" \notin DOMAIN entry
            THEN /\ local' = [local EXCEPT ![r] = Crash(l)]
                 /\ obs' = [obs EXCEPT ![r].source_failed = TRUE]
                 /\ UNCHANGED failures
            ELSE \E get_item_ok \in BOOLEAN :
                   LET seen == is_article_processed(dynamodb_table, entry.link,
                                                    get_item_ok)
                       counted ==
                           [l EXCEPT !.fetched_from_this_feed = @ + 1,
                                     !.processed_urls = Append(@, entry.link)]
                   IN  /\ ~get_item_ok => MayFail(r)
                       /\ Count(r, ~get_item_ok)
                       /\ local' = [local EXCEPT ![r] =
                              IF seen
                              THEN [l EXCEPT !.entry_idx = @ + 1,
                                             !.fetched_from_this_feed = @ + 1]
                              ELSE IF ~HasAllFields(entry)
                              THEN Crash(counted)
                              ELSE [counted EXCEPT
                                        !.entry_idx = @ + 1,
                                        !.papers_to_analyze =
                                            Append(@, MakePaper(entry))]]
                       /\ obs' = [obs EXCEPT
                              ![r].looked_up = TRUE,
                              ![r].reported_new = Append(@, ~seen),
                              ![r].lookup_failed =
                                  IF get_item_ok THEN @ ELSE @ \cup {entry.link},
                              ![r].source_failed =
                                  @ \/ (~seen /\ ~HasAllFields(entry)),
                              ![r].taken_per_feed =
                                  IF seen \/ ~HasAllFields(entry) THEN @
                                  ELSE [@ EXCEPT ![l.feed_idx] = @ + 1]]
    /\ UNCHANGED <<config, dynamodb_table, invocations, since_analysed, write_failed>>

\* One pass of "for entry in feed.entries".
CollectEntry(r) ==
    LET l == local[r] IN
    /\ l.pc = "entries"
    /\ IF \/ l.entry_idx > Len(l.feed_entries)
          \/ l.fetched_from_this_feed >= l.limit_per_feed
       THEN /\ local' = [local EXCEPT ![r] = NextFeed(l)]
            /\ obs' = [obs EXCEPT ![r].reported_new = <<>>]
            /\ UNCHANGED failures
       ELSE LET entry == l.feed_entries[l.entry_idx] IN
            IF "link" \notin DOMAIN entry
            THEN /\ local' = [local EXCEPT ![r] = Crash(l)]
                 /\ obs' = [obs EXCEPT ![r].source_failed = TRUE]
                 /\ UNCHANGED failures
            ELSE \E get_item_ok \in BOOLEAN :
                   LET seen == is_article_processed(dynamodb_table, entry.link,
                                                    get_item_ok)
                       counted ==
                           [l EXCEPT !.fetched_from_this_feed = @ + 1,
                                     !.processed_urls = Append(@, entry.link)]
                   IN  /\ ~get_item_ok => MayFail(r)
                       /\ Count(r, ~get_item_ok)
                       /\ local' = [local EXCEPT ![r] =
                              IF seen
                              THEN [l EXCEPT !.entry_idx = @ + 1]
                              ELSE IF ~HasAllFields(entry)
                              THEN Crash(counted)
                              ELSE [counted EXCEPT
                                        !.entry_idx = @ + 1,
                                        !.papers_to_analyze =
                                            Append(@, MakePaper(entry))]]
                       /\ obs' = [obs EXCEPT
                              ![r].looked_up = TRUE,
                              ![r].reported_new = Append(@, ~seen),
                              ![r].lookup_failed =
                                  IF get_item_ok THEN @ ELSE @ \cup {entry.link},
                              ![r].source_failed =
                                  @ \/ (~seen /\ ~HasAllFields(entry)),
                              ![r].taken_per_feed =
                                  IF seen \/ ~HasAllFields(entry) THEN @
                                  ELSE [@ EXCEPT ![l.feed_idx] = @ + 1]]
    /\ UNCHANGED <<config, dynamodb_table, invocations, since_analysed, write_failed>>

\* collect_unprocessed_papers returns; the handler stops on an empty batch.
CollectReturn(r) ==
    LET l == local[r] IN
    /\ l.pc = "collect"
    /\ l.feed_idx > Len(l.feed_urls_list)
    /\ local' = [local EXCEPT ![r] =
           IF l.papers_to_analyze = <<>>
           THEN Return(l, 200, <<"No new articles to analyze">>)
           ELSE [l EXCEPT !.pc = "analyze"]]
    /\ UNCHANGED <<config, dynamodb_table, obs, invocations, failures,
                   since_analysed, write_failed>>

\* ------------------------------------------------ 3. the model's response
\* JSON values, tagged with their Python type.
JNull == [t |-> "null"]
JNum == [t |-> "num"]
JTrue == [t |-> "bool"]
JStr(x) == [t |-> "str", v |-> x]
JList(xs) == [t |-> "list", v |-> xs]
JObj(f) == [t |-> "obj", v |-> f]

\* A response text is a sequence of pieces: prose, a brace, the text of a JSON
\* literal that holds no brace, or one "key": value member of an object.
Prose == [k |-> "prose"]
LBrace == [k |-> "{"]
RBrace == [k |-> "}"]
Lit(v) == [k |-> "lit", v |-> v]
Member(key, v) == [k |-> "member", key |-> key, v |-> v]

Positions(text, kind) == {i \in DOMAIN text : text[i].k = kind}
SetMin(S) == CHOOSE x \in S : \A y \in S : x <= y
SetMax(S) == CHOOSE x \in S : \A y \in S : x >= y

\* json.loads: a value, or JSONDecodeError.
json_loads(text) ==
    IF Len(text) = 1 /\ text[1].k = "lit"
    THEN [ok |-> TRUE, v |-> text[1].v]
    ELSE IF /\ Len(text) >= 2
            /\ text[1].k = "{"
            /\ text[Len(text)].k = "}"
            /\ \A i \in 2 .. Len(text) - 1 : text[i].k = "member"
    THEN LET keys == {text[i].key : i \in 2 .. Len(text) - 1}
             last(key) == SetMax({i \in 2 .. Len(text) - 1 : text[i].key = key})
         IN  [ok |-> TRUE, v |-> JObj([key \in keys |-> text[last(key)].v])]
    ELSE [ok |-> FALSE, v |-> JNull]

\* result_text[result_text.find('{') : result_text.rfind('}')+1] when both
\* braces occur, the whole text otherwise.
JsonPart(result_text) ==
    IF Positions(result_text, "{") # {} /\ Positions(result_text, "}") # {}
    THEN SubSeq(result_text, SetMin(Positions(result_text, "{")),
                SetMax(Positions(result_text, "}")))
    ELSE result_text

\* 'selected_papers' in analysis_data: a key of a dict, an element of a list,
\* a substring of a string, TypeError on anything else.
InRaises(data) == data.t \in {"num", "null", "bool"}
InHolds(data) ==
    CASE data.t = "obj" -> "selected_papers" \in DOMAIN data.v
      [] data.t = "list" -> \E i \in DOMAIN data.v : data.v[i] = JStr("selected_papers")
      [] data.t = "str" -> data.v = "selected_papers"
      [] OTHER -> FALSE

EmptySelection == JObj([selected_papers |-> JList(<<>>)])

\* The parsing block of analyze_papers_with_bedrock: the dictionary it returns,
\* or the exception it lets out.
ParseResultText(result_text) ==
    LET loaded == json_loads(JsonPart(result_text))
        data == loaded.v
    IN  IF ~loaded.ok
        THEN [raised |-> FALSE, value |-> EmptySelection]
        ELSE IF InRaises(data)
        THEN [raised |-> TRUE, value |-> JNull]
        ELSE IF ~InHolds(data)
        THEN [raised |-> FALSE, value |-> EmptySelection]
        ELSE IF data.t # "obj"
        THEN [raised |-> TRUE, value |-> JNull]
        ELSE IF data.v["selected_papers"].t # "list"
        THEN [raised |-> FALSE, value |-> EmptySelection]
        ELSE [raised |-> FALSE, value |-> data]

\* analysis_result.get("selected_papers", [])
GetSelectedPapers(analysis_result) ==
    IF "selected_papers" \in DOMAIN analysis_result.v
    THEN analysis_result.v["selected_papers"].v
    ELSE <<>>

\* What the model may answer.
SelA ==
    JObj([url |-> JStr("a"), title |-> JStr("t"),
          matched_topic |-> JList(<<JStr("A"), JStr("B")>>),
          summary |-> JStr("s"), keywords |-> JList(<<JStr("k1"), JStr("k2")>>)])
SelB ==
    JObj([url |-> JStr("b"), title |-> JStr("t"), matched_topic |-> JStr("A"),
          summary |-> JStr("s"), keywords |-> JList(<<>>)])
SelX == JObj([url |-> JStr("x"), matched_topic |-> JList(<<>>)])
SelBadKeywords == JObj([url |-> JStr("a"), keywords |-> JNum])
SelJunk == JStr("junk")

ModelList(n) == [i \in 1 .. n |-> IF i % 2 = 1 THEN SelA ELSE SelB]
SelLists ==
    {ModelList(n) : n \in 0 .. MaxModelOut}
        \cup {<<SelX>>, <<SelJunk>>, <<SelA, SelBadKeywords>>}

ObjText(list) == <<LBrace, Member("selected_papers", JList(list)), RBrace>>

ModelResponses ==
    {ObjText(list) : list \in SelLists}
        \cup { <<Prose>> \o ObjText(ModelList(1)) \o <<Prose>>,
               <<LBrace, Member("note", JNum),
                 Member("selected_papers", JList(<<SelB>>)), RBrace>>,
               <<Prose>>,
               <<RBrace, Prose, LBrace>>,
               <<LBrace, Prose, RBrace>>,
               <<LBrace, Member("note", JNum), RBrace>>,
               <<LBrace, Member("selected_papers", JStr("none")), RBrace>>,
               <<Lit(JNum)>>,
               <<Lit(JNull)>>,
               <<Lit(JTrue)>>,
               <<Lit(JStr("ok"))>>,
               <<Lit(JStr("selected_papers"))>>,
               <<Lit(JList(<<>>))>>,
               <<Lit(JList(<<JStr("selected_papers")>>))>> }

\* analyze_papers_with_bedrock as the handler sees it: invoke_model fails and
\* the error is raised again, or the response text is parsed; the handler
\* catches whatever is raised and goes on with no selection.
\* (mutant) the handler without its try/except around the Bedrock stage.
AfterAnalysisUncaught(l, text, raised, selected) ==
    IF raised THEN Crash(l)
    ELSE [l EXCEPT !.pc = "post", !.result_text = text,
                   !.selected_papers = selected]

AfterAnalysis(l, text, raised, selected) ==
    [l EXCEPT !.pc = "post", !.result_text = text,
              !.selected_papers = IF raised THEN <<>> ELSE selected]

AnalyzePapers(r) ==
    LET l == local[r] IN
    /\ l.pc = "analyze"
    /\ \E call_ok \in BOOLEAN, text \in ModelResponses :
         LET result == ParseResultText(text)
             raised == ~call_ok \/ result.raised
         IN  /\ ~call_ok => MayFail(r) /\ text = <<Prose>>
             /\ Count(r, ~call_ok)
             /\ local' = [local EXCEPT ![r] =
                    AfterAnalysis(l, IF call_ok THEN text ELSE <<>>, raised,
                                  IF raised THEN <<>>
                                  ELSE GetSelectedPapers(result.value))]
             /\ obs' = [obs EXCEPT
                    ![r].inference_calls = @ + 1,
                    ![r].lookup_failed = {},
                    ![r].source_failed = FALSE,
                    ![r].taken_per_feed = <<>>,
                    ![r].analysis_outcome =
                        IF raised THEN "raised" ELSE "returned"]
    /\ since_analysed' =
           [u \in Ids |-> IF u \in Urls(l.papers_to_analyze) THEN 0
                          ELSE since_analysed[u]]
    /\ UNCHANGED <<config, dynamodb_table, invocations, write_failed>>

\* --------------------------------------------------- 4. post to Teams
\* dict.get(key, default); AttributeError on anything but a dict is PaperRaises.
Get(paper, key, default) ==
    IF key \in DOMAIN paper.v THEN paper.v[key] ELSE default

\* ", ".join(list of strings), as the sequence of its pieces.
RECURSIVE Join(_)
Join(strs) ==
    IF strs = <<>> THEN <<>>
    ELSE IF Len(strs) = 1 THEN <<strs[1].v>>
    ELSE <<strs[1].v, ", ">> \o Join(Tail(strs))

\* str(value)
Str(value) ==
    CASE value.t = "str" -> <<value.v>>
      [] value.t = "null" -> <<"None">>
      [] OTHER -> <<value.t>>

JoinRaises(value) ==
    \/ value.t \in {"num", "null", "bool"}
    \/ value.t = "list" /\ \E i \in DOMAIN value.v : value.v[i].t # "str"

\* The matched_topic of one paper as it is displayed.
TopicStr(paper) ==
    LET topic_value == Get(paper, "matched_topic", JStr("(N/A)")) IN
    IF topic_value.t = "list"
    THEN IF topic_value.v = <<>> THEN <<"(N/A)">> ELSE Join(topic_value.v)
    ELSE Str(topic_value)

\* ", ".join(paper.get('keywords', [])): join iterates its argument, so a
\* string gives its characters joined and a dict its keys joined.
KeywordsStr(paper) ==
    LET keywords == Get(paper, "keywords", JList(<<>>)) IN
    CASE keywords.t = "list" -> Join(keywords.v)
      [] keywords.t = "str" -> <<"characters of", keywords.v, "joined by", ", ">>
      [] OTHER -> <<"keys joined by", ", ">>

\* Rendering one paper raises: it is no dict, or a join meets a non-string.
PaperRaises(paper) ==
    \/ paper.t # "obj"
    \/ LET topic_value == Get(paper, "matched_topic", JStr("(N/A)")) IN
       topic_value.t = "list" /\ JoinRaises(topic_value)
    \/ JoinRaises(Get(paper, "keywords", JList(<<>>)))

\* The card elements of paper i: a separator from the second paper on, the
\* ranked title, the topic / keywords / summary block, the link.
PaperElements(i, paper) ==
    (IF i > 1 THEN <<[type |-> "Separator"]>> ELSE <<>>)
        \o << [type |-> "Title", rank |-> i,
               title |-> Get(paper, "title", JStr("(No Title)"))],
              [type |-> "Markdown", topic |-> TopicStr(paper),
               keywords |-> KeywordsStr(paper),
               summary |-> Get(paper, "summary", JStr("(No Summary)"))],
              [type |-> "ActionSet", url |-> Get(paper, "url", JStr("#"))] >>

RECURSIVE CardBody(_, _)
CardBody(selected, i) ==
    IF i > Len(selected) THEN <<>>
    ELSE PaperElements(i, selected[i]) \o CardBody(selected, i + 1)

RenderRaises(selected) == \E i \in DOMAIN selected : PaperRaises(selected[i])

\* (mutant) the Teams stage is entered whatever the selection.
ShouldPostAlways(selected_papers) == TRUE

\* "if selected_papers:"
ShouldPost(selected_papers) == selected_papers # <<>>

\* (mutant) the handler without its try/except around the Teams stage.
AfterPostUncaught(l, outcome) ==
    IF outcome = "raised" THEN Crash(l)
    ELSE [l EXCEPT !.pc = "mark", !.mark_idx = 1, !.result_text = <<>>,
                   !.selected_papers = <<>>]

\* The handler after the Teams stage, whatever came of it ("none": not posted,
\* "sent", "failed": False was returned, "raised": an exception was caught).
AfterPost(l, outcome) ==
    [l EXCEPT !.pc = "mark", !.mark_idx = 1, !.result_text = <<>>,
              !.selected_papers = <<>>]

\* post_summary_to_teams.  http is the fate of requests.post: status 200,
\* another success status, an error status (raise_for_status), a network error.
PostSummary(r) ==
    LET l == local[r] IN
    /\ l.pc = "post"
    /\ \E http \in {"200", "202", "error", "network"} :
         LET posted == ShouldPost(l.selected_papers)
             requested ==
                 posted /\ ~RenderRaises(l.selected_papers) /\ TEAMS_WEBHOOK_URL
             outcome ==
                 IF ~posted THEN "none"
                 ELSE IF RenderRaises(l.selected_papers) THEN "raised"
                 ELSE IF ~TEAMS_WEBHOOK_URL THEN "failed"
                 ELSE IF http = "200" THEN "sent" ELSE "failed"
         IN  /\ ~requested => http = "200"
             /\ http # "200" => MayFail(r)
             /\ Count(r, http # "200")
             /\ local' = [local EXCEPT ![r] = AfterPost(l, outcome)]
             /\ obs' = [obs EXCEPT
                    ![r].post_calls = IF posted THEN @ + 1 ELSE @,
                    ![r].post_outcome = outcome]
    /\ UNCHANGED <<config, dynamodb_table, invocations, since_analysed, write_failed>>

\* ------------------------------------------------ 5. mark as processed
\* (mutant) put_item is never issued.
mark_article_as_processed_skipped(table, url, put_item_ok) == table

\* (mutant) the write is a batch write that stamps every key of the table.
mark_article_as_processed_all(table, url, put_item_ok) ==
    IF put_item_ok THEN [u \in DOMAIN table |-> TTL_DAYS] ELSE table

\* mark_article_as_processed: put_item with a ttl TTL_DAYS from now; a failure
\* of put_item is logged and leaves the table as it was.
mark_article_as_processed(table, url, put_item_ok) ==
    IF put_item_ok THEN [table EXCEPT ![url] = TTL_DAYS] ELSE table

\* (mutant) mark_article_as_processed without its try/except: a failure of
\* put_item leaves the marking loop and the handler.
MarkNextUncaught(r) ==
    LET l == local[r] IN
    /\ l.pc = "mark"
    /\ l.mark_idx <= Len(l.processed_urls)
    /\ \E put_item_ok \in BOOLEAN :
         LET url == l.processed_urls[l.mark_idx] IN
         /\ ~put_item_ok => MayFail(r)
         /\ Count(r, ~put_item_ok)
         /\ dynamodb_table' = mark_article_as_processed(dynamodb_table, url, put_item_ok)
         /\ write_failed' = [write_failed EXCEPT ![url] = ~put_item_ok]
         /\ obs' = [obs EXCEPT ![r].mark_calls = Append(@, url)]
         /\ local' = [local EXCEPT ![r] =
                IF put_item_ok THEN [l EXCEPT !.mark_idx = @ + 1] ELSE Crash(l)]
    /\ UNCHANGED <<config, invocations, since_analysed>>

MarkNext(r) ==
    LET l == local[r] IN
    /\ l.pc = "mark"
    /\ l.mark_idx <= Len(l.processed_urls)
    /\ \E put_item_ok \in BOOLEAN :
         LET url == l.processed_urls[l.mark_idx] IN
         /\ ~put_item_ok => MayFail(r)
         /\ Count(r, ~put_item_ok)
         /\ dynamodb_table' = mark_article_as_processed(dynamodb_table, url, put_item_ok)
         /\ write_failed' = [write_failed EXCEPT ![url] = ~put_item_ok]
         /\ obs' = [obs EXCEPT ![r].mark_calls = Append(@, url)]
    /\ local' = [local EXCEPT ![r].mark_idx = @ + 1]
    /\ UNCHANGED <<config, invocations, since_analysed>>

Complete(r) ==
    LET l == local[r] IN
    /\ l.pc = "mark"
    /\ l.mark_idx > Len(l.processed_urls)
    /\ local' = [local EXCEPT ![r] = Return(l, 200,
           <<"Process successful. Analyzed ", Len(l.papers_to_analyze), " articles.">>)]
    /\ UNCHANGED <<config, dynamodb_table, obs, invocations, failures,
                   since_analysed, write_failed>>

\* The invocation is over: its locals are gone.
Exit(r) ==
    /\ local[r].pc \in {"done", "crashed"}
    /\ local' = [local EXCEPT ![r] = IdleLocal]
    /\ obs' = [obs EXCEPT ![r] = NoObs]
    /\ failures' = [failures EXCEPT ![r] = 0]
    /\ UNCHANGED <<config, dynamodb_table, invocations, since_analysed,
                   write_failed>>

\* ------------------------------------- post_summary_to_teams on its own
\* Papers as a model may describe them, for the rendering loop.
SelNoTopic == JObj([url |-> JStr("a"), title |-> JStr("t")])
SelEmptyTopic == JObj([url |-> JStr("a"), matched_topic |-> JStr("")])
SelNumTopic == JObj([url |-> JStr("a"), matched_topic |-> JNum])
SelMixedTopic == JObj([url |-> JStr("a"), matched_topic |-> JList(<<JStr("A"), JNum>>)])
RenderPapers ==
    {SelA, SelB, SelX, SelNoTopic, SelEmptyTopic, SelNumTopic, SelMixedTopic,
     SelBadKeywords, SelJunk}

\* post_summary_to_teams is entered with a non-empty list.
RenderInputs == SeqsUpTo(RenderPapers, MaxRendered) \ {<<>>}

\* The loop that builds card_body_elements: the elements of every paper, or
\* the exception the loop lets out.
RenderCard(r) ==
    LET l == local[r] IN
    /\ l.pc = "render"
    /\ local' = [local EXCEPT ![r] =
           IF RenderRaises(l.selected_papers)
           THEN [l EXCEPT !.pc = "render_raised"]
           ELSE [l EXCEPT !.pc = "rendered",
                          !.card_body_elements = CardBody(l.selected_papers, 1)]]
    /\ UNCHANGED <<config, dynamodb_table, obs, invocations, failures,
                   since_analysed, write_failed>>

\* ------------------------------------------------------- the environment
\* One ttl period goes by.
Tick ==
    /\ \A r \in Runs : local[r].pc = "idle"
    /\ dynamodb_table' =
           [u \in Ids |-> IF dynamodb_table[u] = NoItem THEN NoItem
                          ELSE Max(0, dynamodb_table[u] - TTL_DAYS)]
    /\ since_analysed' = [u \in Ids |-> Min(TTL_DAYS, since_analysed[u] + TTL_DAYS)]
    /\ UNCHANGED <<config, local, obs, invocations, failures, write_failed>>

\* DynamoDB deletes an item whose ttl has passed, some time after it has.
TtlDelete(u) ==
    /\ dynamodb_table[u] = 0
    /\ dynamodb_table' = [dynamodb_table EXCEPT ![u] = NoItem]
    /\ UNCHANGED <<config, local, obs, invocations, failures, since_analysed,
                   write_failed>>

\* ------------------------------------------------------- specifications
Step(r) ==
    \/ LoadConfig(r)
    \/ FetchFeed(r)
    \/ CollectEntry(r)
    \/ CollectReturn(r)
    \/ AnalyzePapers(r)
    \/ PostSummary(r)
    \/ MarkNext(r)
    \/ Complete(r)
    \/ Exit(r)

Environment == Tick \/ \E u \in Ids : TtlDelete(u)

\* Invocations one after the other.
Next == Step("r1") \/ Environment
Spec == Init /\ [][Next]_vars

\* A configuration that passes validation, with one feed.
InitOneFeed ==
    /\ Init
    /\ aws_clients_ok
    /\ MAX_ARTICLES_TO_PROCESS_ENV = [valid |-> TRUE, n |-> MaxCap]
    /\ Len(parse_feed_urls(RSS_FEED_URLS_ENV)) = 1
    /\ \E lv \in Levels : parse_topics(TOPICS_ENV[lv]) # <<>>
    /\ TEAMS_WEBHOOK_URL

\* Independent invocations that may overlap in time on the same table.
NextConc == (\E r \in Runs : Step(r)) \/ Environment
SpecConc == InitOneFeed /\ [][NextConc]_vars

\* Configurations that pass validation, with the largest cap.
InitValid ==
    /\ Init
    /\ aws_clients_ok
    /\ MAX_ARTICLES_TO_PROCESS_ENV = [valid |-> TRUE, n |-> MaxCap]
    /\ parse_feed_urls(RSS_FEED_URLS_ENV) # <<>>
    /\ \E lv \in Levels : parse_topics(TOPICS_ENV[lv]) # <<>>

\* The handler is one sequential thread: a step that can be taken is taken.
SpecLive == InitValid /\ [][Next]_vars /\ WF_vars(Step("r1"))

\* post_summary_to_teams has just been called, with any non-empty selection.
InitRender ==
    /\ aws_clients_ok = TRUE
    /\ MAX_ARTICLES_TO_PROCESS_ENV = [valid |-> TRUE, n |-> MaxCap]
    /\ RSS_FEED_URLS_ENV \in {e \in FeedEnvs : Len(parse_feed_urls(e)) = 1}
    /\ TOPICS_ENV \in {e \in TopicEnvs : \E lv \in Levels : parse_topics(e[lv]) # <<>>}
    /\ TEAMS_WEBHOOK_URL = TRUE
    /\ dynamodb_table = [u \in Ids |-> NoItem]
    /\ \E selected \in RenderInputs :
           local = [r \in Runs |->
                      IF r = "r1"
                      THEN [IdleLocal EXCEPT !.pc = "render",
                                             !.selected_papers = selected]
                      ELSE IdleLocal]
    /\ obs = [r \in Runs |-> NoObs]
    /\ invocations = 1
    /\ failures = [r \in Runs |-> 0]
    /\ since_analysed = [u \in Ids |-> TTL_DAYS]
    /\ write_failed = [u \in Ids |-> FALSE]

NextRender == RenderCard("r1")
SpecRender == InitRender /\ [][NextRender]_vars

\* ================================================================ claims
\* C1: once collect_unprocessed_papers has returned a non-empty batch (the
\* handler stands before the Bedrock stage), the run reaches the marking loop,
\* whether the selection returns, returns nothing or raises, and whether the
\* Teams stage returns True, returns False or raises.
C1_MarkingReached ==
    \A r \in Runs :
        (local[r].pc = "analyze" /\ local[r].papers_to_analyze # <<>>)
            ~> (local[r].pc = "mark")

\* A run stands at the start of the marking loop, with a batch to mark, after
\* the selection returned and the Teams stage raised.
C1_Witness ==
    \E r \in Runs :
        /\ local[r].pc = "mark"
        /\ local[r].mark_idx = 1
        /\ local[r].processed_urls # <<>>
        /\ obs[r].post_outcome = "raised"
        /\ obs[r].analysis_outcome = "returned"

\* C2 (as stated): when a run that collected a batch has completed, every
\* identifier of the batch has an item in the table.
C2_AllInStoreAfterRun ==
    \A r \in Runs :
        local[r].pc = "done" =>
            \A i \in DOMAIN local[r].processed_urls :
                dynamodb_table[local[r].processed_urls[i]] # NoItem

\* C2 (amended): when a run that collected a batch has completed, every
\* identifier of the batch has an item in the table unless its put_item failed.
C2_AllInStoreUnlessWriteFailed ==
    \A r \in Runs :
        local[r].pc = "done" =>
            \A i \in DOMAIN local[r].processed_urls :
                LET url == local[r].processed_urls[i] IN
                dynamodb_table[url] # NoItem \/ write_failed[url]

\* A run has completed after its selection raised, and its whole batch is in
\* the table with a fresh ttl.
C2_Witness ==
    \E r \in Runs :
        /\ local[r].pc = "done"
        /\ Len(local[r].processed_urls) >= 2
        /\ obs[r].analysis_outcome = "raised"
        /\ \A i \in DOMAIN local[r].processed_urls :
               /\ dynamodb_table[local[r].processed_urls[i]] = TTL_DAYS
               /\ ~write_failed[local[r].processed_urls[i]]

\* The step in which run r takes url u into its batch.
Collects(r, u) ==
    /\ local[r].pc = "entries"
    /\ local'[r].pc = "entries"
    /\ local'[r].processed_urls = Append(local[r].processed_urls, u)

\* C3 (as stated): an identifier whose item is in the table and has not
\* expired is never taken into a batch, whatever the lookup does.
C3_LiveItemNeverCollected ==
    [][\A r \in Runs, u \in Ids : Collects(r, u) => dynamodb_table[u] <= 0]_vars

\* C3 (amended): an identifier whose item is in the table and has not expired
\* is never taken into a batch unless the lookup of it fails.
C3_LiveItemCollectedOnlyOnLookupFailure ==
    [][\A r \in Runs, u \in Ids :
          Collects(r, u) /\ dynamodb_table[u] > 0 => u \in obs'[r].lookup_failed]_vars

\* A later run has looked up an identifier marked by an earlier run, in the
\* same ttl period, and has passed it over.
C3_Witness ==
    \E r \in Runs, u \in Ids :
        /\ invocations = 2
        /\ local[r].pc = "entries"
        /\ local[r].entry_idx = 2
        /\ local[r].feed_entries[1] \in {e \in EntrySet : "link" \in DOMAIN e}
        /\ local[r].feed_entries[1].link = u
        /\ dynamodb_table[u] = TTL_DAYS
        /\ obs[r].looked_up
        /\ obs[r].lookup_failed = {}
        /\ local[r].processed_urls = <<>>

\* The step in which run r hands its batch to the LLM.
Analyses(r, u) ==
    /\ local[r].pc = "analyze"
    /\ local'[r].pc = "post"
    /\ u \in Urls(local[r].papers_to_analyze)

\* C4 (as stated): an identifier is handed to the LLM at most once per ttl
\* period, whether or not invocations overlap and whatever fails.
C4_OncePerWindow ==
    [][\A r \in Runs, u \in Ids :
          Analyses(r, u) => since_analysed[u] >= TTL_DAYS]_vars

\* C4 (amended): an identifier is handed to the LLM a second time within one
\* ttl period only by an invocation that overlapped another one, or after its
\* lookup failed, or after the put_item that marks it failed.
C4_OncePerWindowUnlessOverlapOrFailure ==
    [][\A r \in Runs, u \in Ids :
          Analyses(r, u) =>
              \/ since_analysed[u] >= TTL_DAYS
              \/ obs[r].overlapped
              \/ u \in obs[r].lookup_failed
              \/ write_failed[u]]_vars

\* A second invocation, which overlapped no other, has handed a batch to the
\* LLM that leaves out an identifier analysed and marked earlier in the period,
\* although its feed listed it.
C4_Witness ==
    \E r \in Runs, u \in Ids :
        /\ invocations = 2
        /\ ~obs[r].overlapped
        /\ local[r].pc = "post"
        /\ obs[r].inference_calls = 1
        /\ u \notin Urls(local[r].papers_to_analyze)
        /\ since_analysed[u] = 0
        /\ dynamodb_table[u] = TTL_DAYS
        /\ ~write_failed[u]

\* C5: the selection the handler holds (what analyze_papers_with_bedrock
\* returned, and what goes to post_summary_to_teams) has at most 3 papers.
C5_AtMostThreeSelected ==
    \A r \in Runs : Len(local[r].selected_papers) <= MAX_SELECTED

\* The response text does not yield a dictionary with a selected_papers list.
LacksSelection(result_text) ==
    LET loaded == json_loads(JsonPart(result_text)) IN
    \/ ~loaded.ok
    \/ loaded.v.t # "obj"
    \/ "selected_papers" \notin DOMAIN loaded.v.v
    \/ loaded.v.v["selected_papers"].t # "list"

\* C6: whenever invoke_model returned a text that cannot be parsed or that
\* parses to something without a selected_papers list, the analysis returns
\* the empty selection and raises nothing.
C6_MalformedYieldsEmpty ==
    \A r \in Runs :
        (/\ local[r].pc = "post"
         /\ local[r].result_text # <<>>
         /\ LacksSelection(local[r].result_text))
            => /\ obs[r].analysis_outcome = "returned"
               /\ local[r].selected_papers = <<>>

\* C7: the quota is max(1, M // N), no source gives more than the quota, and
\* the batch holds at most N * quota papers.
C7_QuotaBound ==
    \A r \in Runs :
        local[r].pc \in {"collect", "entries", "analyze"} =>
            LET M == local[r].max_to_process
                N == Len(local[r].feed_urls_list)
                quota == IF M \div N >= 1 THEN M \div N ELSE 1
            IN  /\ N >= 1
                /\ local[r].limit_per_feed = quota
                /\ \A k \in DOMAIN obs[r].taken_per_feed :
                       obs[r].taken_per_feed[k] <= quota
                /\ Len(local[r].papers_to_analyze) <= N * quota

\* With a cap below the number of feeds the quota is 1, and a source that has
\* given one paper is left although it lists more entries.
C7_Witness ==
    \E r \in Runs :
        /\ local[r].pc = "entries"
        /\ local[r].max_to_process < Len(local[r].feed_urls_list)
        /\ local[r].limit_per_feed = 1
        /\ local[r].fetched_from_this_feed = 1
        /\ local[r].entry_idx <= Len(local[r].feed_entries)
        /\ obs[r].taken_per_feed[local[r].feed_idx] = 1

\* C8: a failure in one source (an error of the fetch, a malformed feed, no
\* entries, an entry without link, title or summary) does not end the
\* collection: the run goes on, and the batch is handed over only after
\* every source has been visited.
C8_SourceFailureIsolated ==
    \A r \in Runs :
        obs[r].source_failed =>
            /\ local[r].pc # "crashed"
            /\ local[r].pc = "analyze" =>
                   Len(obs[r].taken_per_feed) = Len(local[r].feed_urls_list)

\* C9: the Teams stage is entered at most once in a run, and only after the
\* analysis returned a non-empty selection; invoke_model is issued at most once.
C9_NotifierOnlyAfterSelection ==
    [][\A r \in Runs :
          /\ obs'[r].post_calls > obs[r].post_calls =>
                 /\ obs[r].post_calls = 0
                 /\ obs[r].analysis_outcome = "returned"
                 /\ local[r].selected_papers # <<>>
          /\ obs'[r].inference_calls > obs[r].inference_calls =>
                 obs[r].inference_calls = 0 /\ obs[r].post_calls = 0]_vars

\* The analysis raised, Bedrock was called once and the run went on to the
\* marking loop without entering the Teams stage.
C9_Witness ==
    \E r \in Runs :
        /\ local[r].pc = "mark"
        /\ obs[r].analysis_outcome = "raised"
        /\ obs[r].inference_calls = 1
        /\ obs[r].post_calls = 0

\* C10: when the Teams stage fails (post_summary_to_teams returns False or
\* raises), the run goes on to the marking loop, calls
\* mark_article_as_processed for every identifier of the batch and returns 200.
C10_DeliveryFailureNotFatal ==
    \A r \in Runs :
        obs[r].post_outcome \in {"failed", "raised"} =>
            /\ local[r].pc \in {"mark", "done"}
            /\ local[r].pc = "done" =>
                   /\ local[r].response.statusCode = 200
                   /\ obs[r].mark_calls = local[r].processed_urls

\* A run whose post returned False has completed with status 200 and its
\* batch marked.
C10_Witness ==
    \E r \in Runs :
        /\ local[r].pc = "done"
        /\ obs[r].post_outcome = "failed"
        /\ local[r].response.statusCode = 200
        /\ local[r].processed_urls # <<>>
        /\ \A i \in DOMAIN local[r].processed_urls :
               dynamodb_table[local[r].processed_urls[i]] = TTL_DAYS

\* The run has called no external service and no store operation.
NothingDone(r) ==
    /\ ~obs[r].fetched_feed
    /\ ~obs[r].looked_up
    /\ obs[r].inference_calls = 0
    /\ obs[r].post_calls = 0
    /\ obs[r].mark_calls = <<>>

\* The configuration stops the handler before collection.
EndsAtConfiguration ==
    \/ ~aws_clients_ok
    \/ parse_feed_urls(RSS_FEED_URLS_ENV) = <<>>
    \/ \A lv \in Levels : parse_topics(TOPICS_ENV[lv]) = <<>>

\* C11: a run started under a configuration without clients, without feeds or
\* without topics has returned (500 without clients, 200 otherwise) and has
\* fetched no feed, looked nothing up, written nothing, called neither Bedrock
\* nor Teams; a run that returned with an empty batch has called neither
\* Bedrock nor Teams and has written nothing.
C11_NoWorkOnEarlyExit ==
    \A r \in Runs :
        /\ (local[r].pc # "idle" /\ EndsAtConfiguration) =>
               /\ local[r].pc = "done"
               /\ local[r].response.statusCode = IF aws_clients_ok THEN 200 ELSE 500
               /\ NothingDone(r)
        /\ (local[r].pc = "done" /\ local[r].papers_to_analyze = <<>>) =>
               /\ obs[r].inference_calls = 0
               /\ obs[r].post_calls = 0
               /\ obs[r].mark_calls = <<>>

\* A run has returned because every topic level is empty, with clients and
\* feeds configured, and has done nothing.
C11_Witness ==
    \E r \in Runs :
        /\ local[r].pc = "done"
        /\ aws_clients_ok
        /\ local[r].feed_urls_list # <<>>
        /\ local[r].response = [statusCode |-> 200,
                                 body |-> <<"All topic environments are empty.">>]
        /\ NothingDone(r)

\* C12: the marking loop calls mark_article_as_processed once for each element
\* of the identifier list, in the order of the list, whether or not an earlier
\* put_item failed; once it has started the run stays in the loop until it
\* returns, and it returns 200.
C12_WriteFailureDoesNotAbort ==
    \A r \in Runs :
        /\ local[r].pc = "mark" =>
               obs[r].mark_calls =
                   SubSeq(local[r].processed_urls, 1, local[r].mark_idx - 1)
        /\ obs[r].mark_calls # <<>> => local[r].pc \in {"mark", "done"}
        /\ (local[r].pc = "done" /\ local[r].processed_urls # <<>>) =>
               /\ obs[r].mark_calls = local[r].processed_urls
               /\ local[r].response.statusCode = 200

\* A run has returned 200 after the write of its first identifier failed and
\* the write of its second identifier, attempted all the same, succeeded.
C12_Witness ==
    \E r \in Runs :
        /\ local[r].pc = "done"
        /\ local[r].response.statusCode = 200
        /\ Len(local[r].processed_urls) = 2
        /\ local[r].processed_urls[1] # local[r].processed_urls[2]
        /\ obs[r].mark_calls = local[r].processed_urls
        /\ write_failed[local[r].processed_urls[1]]
        /\ dynamodb_table[local[r].processed_urls[1]] = NoItem
        /\ dynamodb_table[local[r].processed_urls[2]] = TTL_DAYS

\* The step in which a lookup of run r fails (get_item raises).
LookupFails(r) ==
    /\ local[r].pc = "entries"
    /\ failures'[r] = failures[r] + 1

\* C13: is_article_processed answers False when get_item fails, as it does for
\* a key without item; and the step in which the lookup of an entry fails does
\* to the entry what is done to a new one: it counts toward the quota of its
\* source, its link joins the identifier list and its paper the batch (an
\* entry without title or summary raises, as a new one does).
C13_LookupFailureIsFailOpen ==
    [][\A r \in Runs :
          /\ \A u \in Ids :
                 is_article_processed(dynamodb_table, u, FALSE)
                     = is_article_processed([v \in Ids |-> NoItem], u, TRUE)
          /\ LookupFails(r) =>
                 LET l == local[r]
                     entry == l.feed_entries[l.entry_idx]
                 IN  IF HasAllFields(entry)
                     THEN local'[r] =
                              [l EXCEPT
                                   !.entry_idx = @ + 1,
                                   !.fetched_from_this_feed = @ + 1,
                                   !.processed_urls = Append(@, entry.link),
                                   !.papers_to_analyze = Append(@, MakePaper(entry))]
                     ELSE local'[r].pc = "crashed"]_vars

\* A run holds in its batch an identifier whose item in the table is live:
\* its lookup failed and it was counted against the quota of its source.
C13_Witness ==
    \E r \in Runs, u \in Ids :
        /\ local[r].pc = "entries"
        /\ u \in obs[r].lookup_failed
        /\ dynamodb_table[u] = TTL_DAYS
        /\ local[r].processed_urls = <<u>>
        /\ Urls(local[r].papers_to_analyze) = {u}
        /\ local[r].fetched_from_this_feed = 1
        /\ obs[r].taken_per_feed[local[r].feed_idx] = 1

\* The urls of the selected papers that carry one.
SelectedUrls(selected) ==
    {selected[i].v["url"].v :
         i \in {j \in DOMAIN selected :
                    /\ selected[j].t = "obj"
                    /\ "url" \in DOMAIN selected[j].v
                    /\ selected[j].v["url"].t = "str"}}

\* C14: the selection the handler is about to pass to post_summary_to_teams
\* names only papers of the batch of the same run: every url in it is the url
\* of a paper in papers_to_analyze.
C14_SelectionWithinBatch ==
    \A r \in Runs :
        local[r].pc = "post" =>
            SelectedUrls(local[r].selected_papers)
                \subseteq Urls(local[r].papers_to_analyze)

\* What C15 says the matched_topic of a paper is displayed as; anything, for a
\* value the claim does not speak of.
TopicAsClaimed(paper, shown) ==
    IF "matched_topic" \notin DOMAIN paper.v THEN shown = <<"(N/A)">>
    ELSE LET topic_value == paper.v["matched_topic"] IN
         CASE topic_value = JList(<<>>) -> shown = <<"(N/A)">>
           [] topic_value = JStr("") -> shown = <<"(N/A)">>
           [] topic_value.t = "str" /\ topic_value # JStr("") ->
                  shown = <<topic_value.v>>
           [] topic_value.t = "list" /\ topic_value # JList(<<>>) ->
                  shown = Join(topic_value.v)
           [] OTHER -> TRUE

\* The position in card_body_elements of the Markdown block of paper i.
MarkdownAt(i) == 4 * (i - 1) + 2

\* C15: in the card post_summary_to_teams has built, the topic line of every
\* paper is its matched_topic list joined by ", ", its matched_topic string as
\* it is, or "(N/A)" when matched_topic is absent, an empty list or an empty
\* string.
C15_TopicRendering ==
    \A r \in Runs :
        local[r].pc = "rendered" =>
            \A i \in DOMAIN local[r].selected_papers :
                TopicAsClaimed(local[r].selected_papers[i],
                               local[r].card_body_elements[MarkdownAt(i)].topic)

\* The papers made of the entries whose lookup reported "not processed", in
\* the order of the feed.
RECURSIVE PapersOfNew(_, _)
PapersOfNew(entries, reports) ==
    IF reports = <<>> THEN <<>>
    ELSE LET n == Len(reports)
             before == PapersOfNew(entries, SubSeq(reports, 1, n - 1))
         IN  IF reports[n] THEN Append(before, MakePaper(entries[n])) ELSE before

\* The papers the run has taken from the source it is reading.
TakenFromThisFeed(l) ==
    SubSeq(l.papers_to_analyze,
           Len(l.papers_to_analyze) - l.fetched_from_this_feed + 1,
           Len(l.papers_to_analyze))

\* C16: while a source is read, the papers taken from it are those of the
\* entries examined so far whose lookup reported "not processed", in feed
\* order, at most L of them, and nothing is examined once L are taken; an
\* entry is examined only below the quota and its report is the lookup's
\* (no item, or a failed lookup); the source is left with L papers taken or
\* with every entry examined, that is with the first min(L, k), and the next
\* source in the configured order adds to the end of the batch.
C16_FirstNewEntriesPerSource ==
    [][\A r \in Runs :
          LET l == local[r]
              L == l.limit_per_feed
              reports == obs[r].reported_new
          IN  /\ l.pc = "entries" =>
                     /\ Len(reports) = l.entry_idx - 1
                     /\ l.fetched_from_this_feed <= L
                     /\ l.fetched_from_this_feed <= Len(l.papers_to_analyze)
                     /\ TakenFromThisFeed(l) = PapersOfNew(l.feed_entries, reports)
                     /\ (l.fetched_from_this_feed = L /\ reports # <<>>) =>
                            reports[Len(reports)]
              /\ (l.pc = "entries" /\ local'[r].pc = "collect") =>
                     /\ \/ l.fetched_from_this_feed = L
                        \/ l.entry_idx > Len(l.feed_entries)
                     /\ local'[r].papers_to_analyze = l.papers_to_analyze
                     /\ local'[r].feed_idx = l.feed_idx + 1
              /\ (l.pc = "entries" /\ local'[r].pc = "entries" /\ local'[r] # l) =>
                     LET entry == l.feed_entries[l.entry_idx] IN
                     /\ l.fetched_from_this_feed < L
                     /\ local'[r].feed_idx = l.feed_idx
                     /\ obs'[r].reported_new =
                            Append(reports,
                                   \/ dynamodb_table[entry.link] = NoItem
                                   \/ failures'[r] > failures[r])]_vars

\* A run has passed over the first entry of a source, which is processed,
\* without counting it, and has taken the second one.
C16_Witness ==
    \E r \in Runs :
        /\ local[r].pc = "entries"
        /\ obs[r].reported_new = <<FALSE, TRUE>>
        /\ local[r].fetched_from_this_feed = 1
        /\ local[r].limit_per_feed = 1
        /\ TakenFromThisFeed(local[r]) = <<MakePaper(local[r].feed_entries[2])>>

\* The url fields of a batch, in its order.
UrlList(papers) == [i \in DOMAIN papers |-> papers[i].url]

\* C17: from the moment collect_unprocessed_papers has returned, the
\* identifier list is the list of the url fields of the batch, element by
\* element; and when a run with a batch has returned, the identifiers it
\* marked are those of the papers handed to the LLM.
C17_IdentifiersMatchBatch ==
    \A r \in Runs :
        /\ local[r].pc \in {"analyze", "post", "mark", "done"} =>
               local[r].processed_urls = UrlList(local[r].papers_to_analyze)
        /\ (local[r].pc = "done" /\ local[r].papers_to_analyze # <<>>) =>
               /\ obs[r].inference_calls = 1
               /\ Range(obs[r].mark_calls) = Urls(local[r].papers_to_analyze)

\* collect_unprocessed_papers has returned a batch of two different papers
\* and the list of their two identifiers.
C17_Witness ==
    \E r \in Runs :
        /\ local[r].pc = "analyze"
        /\ Len(local[r].papers_to_analyze) = 2
        /\ local[r].processed_urls = UrlList(local[r].papers_to_analyze)
        /\ local[r].processed_urls[1] # local[r].processed_urls[2]

\* C18: the batch collect_unprocessed_papers has returned holds no identifier
\* twice.
C18_NoDuplicateInBatch ==
    \A r \in Runs :
        local[r].pc = "analyze" =>
            \A i, j \in DOMAIN local[r].papers_to_analyze :
                local[r].papers_to_analyze[i].url = local[r].papers_to_analyze[j].url
                    => i = j

\* C19: a step of a run that looks an identifier up is a step of the
\* collection, before any Bedrock, Teams or mark call; a step of a run that
\* changes the table is a step of the marking loop, after the Bedrock stage
\* and the Teams stage, and changes the item of one key only, a key of the
\* identifier list of the run.
C19_StoreReadThenWritten ==
    [][\A r \in Runs :
          local'[r] # local[r] =>
              /\ Len(obs'[r].reported_new) > Len(obs[r].reported_new) =>
                     /\ local[r].pc = "entries"
                     /\ obs[r].inference_calls = 0
                     /\ obs[r].post_calls = 0
                     /\ obs[r].mark_calls = <<>>
              /\ dynamodb_table' # dynamodb_table =>
                     /\ local[r].pc = "mark"
                     /\ obs[r].inference_calls = 1
                     /\ obs[r].post_outcome \in {"none", "sent", "failed", "raised"}
                     /\ \E u \in Range(local[r].processed_urls) :
                            /\ obs'[r].mark_calls = Append(obs[r].mark_calls, u)
                            /\ \A v \in Ids \ {u} :
                                   dynamodb_table'[v] = dynamodb_table[v]]_vars

\* A run in its marking loop has written the item of the one identifier it
\* collected, after Bedrock was called, and the other key is as it was.
C19_Witness ==
    \E r \in Runs, u \in Ids :
        /\ local[r].pc = "mark"
        /\ local[r].processed_urls = <<u>>
        /\ obs[r].mark_calls = <<u>>
        /\ obs[r].inference_calls = 1
        /\ dynamodb_table[u] = TTL_DAYS
        /\ \A v \in Ids \ {u} : dynamodb_table[v] = NoItem

\* C20: no exception leaves lambda_handler, and the result it returns has
\* status code 200 or 500.
C20_HandlerAlwaysReturns ==
    \A r \in Runs :
        /\ local[r].pc # "crashed"
        /\ local[r].pc = "done" => local[r].response.statusCode \in {200, 500}

====
